---- MODULE Spec2Model ----
(***************************************************************************)
(* Model of the workflow orchestrator (workflow-api/src/server.ts): the    *)
(* SSE relay streamSSE, the POST /api/workflow handler, the GET /status    *)
(* probe and the scheduled process exit.                                   *)
(*                                                                         *)
(* Text is a sequence of code points, a network chunk a sequence of        *)
(* bytes; both are sequences of integers.                                  *)
(***************************************************************************)
EXTENDS Integers, Sequences, FiniteSets, TLC

(***************************************************************************)
(* Bounds of the model.                                                    *)
(***************************************************************************)
\* pieces concatenated into one relay input stream
MaxPieces == 3
\* bytes of the longest chunk the transport hands to the 'data' handler
MaxChunkLen == 12

(***************************************************************************)
(* Buffer.prototype.toString(): UTF-8 decoding of ONE chunk.  Bytes below  *)
(* 0x80 are themselves; a lead byte 0xC2..0xDF followed by a continuation  *)
(* byte 0x80..0xBF is one two-byte character; a lead byte with no          *)
(* continuation byte after it in this chunk, and a stray continuation      *)
(* byte, decode to U+FFFD.  (Bytes from 0xE0 up are not in the inputs of   *)
(* the model.)                                                             *)
(***************************************************************************)
RECURSIVE toString(_)
toString(chunk) ==
    IF chunk = <<>> THEN <<>>
    ELSE IF chunk[1] < 128 THEN <<chunk[1]>> \o toString(Tail(chunk))
    ELSE IF /\ chunk[1] \in 194..223
            /\ Len(chunk) >= 2
            /\ chunk[2] \in 128..191
         THEN <<(chunk[1] - 192) * 64 + (chunk[2] - 128)>>
                  \o toString(SubSeq(chunk, 3, Len(chunk)))
    ELSE <<65533>> \o toString(Tail(chunk))

(***************************************************************************)
(* JSON values, JSON.parse and property access.  The grammar is JSON       *)
(* restricted to what the inputs of the model are written in: objects,     *)
(* strings without escapes, non-negative integers, true, false, null, and  *)
(* the whitespace characters.                                              *)
(***************************************************************************)
JVal(t, n, s, kv) == [t |-> t, n |-> n, s |-> s, kv |-> kv]
JNull      == JVal("null", 0, <<>>, <<>>)
JUndefined == JVal("undefined", 0, <<>>, <<>>)
JTrue      == JVal("true", 0, <<>>, <<>>)
JFalse     == JVal("false", 0, <<>>, <<>>)
JNum(n)    == JVal("num", n, <<>>, <<>>)
JStr(s)    == JVal("str", 0, s, <<>>)
JObj(kv)   == JVal("obj", 0, <<>>, kv)

\* the result of a failed parse (JSON.parse throws SyntaxError)
ParseFail == [ok |-> FALSE, val |-> JUndefined, next |-> 0]
ParseOk(v, next) == [ok |-> TRUE, val |-> v, next |-> next]

IsWs(c) == c \in {32, 10, 13, 9}
IsDigit(c) == c \in 48..57

RECURSIVE SkipWs(_, _)
SkipWs(s, i) == IF i <= Len(s) /\ IsWs(s[i]) THEN SkipWs(s, i + 1) ELSE i

\* index of the quote closing the string whose first character is s[i], or 0
RECURSIVE StrEnd(_, _)
StrEnd(s, i) ==
    IF i > Len(s) THEN 0
    ELSE IF s[i] = 34 THEN i
    ELSE IF s[i] < 32 \/ s[i] = 92 THEN 0
    ELSE StrEnd(s, i + 1)

\* s[i] is the opening quote
ParseString(s, i) ==
    LET e == StrEnd(s, i + 1)
    IN  IF e = 0 THEN ParseFail
        ELSE ParseOk(JStr(SubSeq(s, i + 1, e - 1)), e + 1)

RECURSIVE DigitsEnd(_, _)
DigitsEnd(s, i) == IF i <= Len(s) /\ IsDigit(s[i]) THEN DigitsEnd(s, i + 1) ELSE i

RECURSIVE DigitsValue(_, _)
DigitsValue(s, n) ==
    IF s = <<>> THEN n ELSE DigitsValue(Tail(s), n * 10 + (s[1] - 48))

\* s[i] is a digit; a leading zero is a number of its own
ParseNumber(s, i) ==
    LET e == IF s[i] = 48 THEN i + 1 ELSE DigitsEnd(s, i)
    IN  ParseOk(JNum(DigitsValue(SubSeq(s, i, e - 1), 0)), e)

ParseLiteral(s, i, word, v) ==
    IF /\ i + Len(word) - 1 <= Len(s)
       /\ SubSeq(s, i, i + Len(word) - 1) = word
    THEN ParseOk(v, i + Len(word))
    ELSE ParseFail

\* an object keeps one entry per key: a repeated key overwrites the value
RECURSIVE PutMember(_, _, _)
PutMember(kv, k, v) ==
    IF kv = <<>> THEN <<[k |-> k, v |-> v]>>
    ELSE IF kv[1].k = k THEN <<[k |-> k, v |-> v]>> \o Tail(kv)
    ELSE <<kv[1]>> \o PutMember(Tail(kv), k, v)

RECURSIVE ParseValue(_, _)
RECURSIVE ParseMembers(_, _, _)

\* i is the index of the first character of the value (whitespace skipped)
ParseValue(s, i) ==
    IF i > Len(s) THEN ParseFail
    ELSE IF s[i] = 123 THEN
        LET j == SkipWs(s, i + 1)
        IN  IF j <= Len(s) /\ s[j] = 125 THEN ParseOk(JObj(<<>>), j + 1)
            ELSE ParseMembers(s, j, <<>>)
    ELSE IF s[i] = 34 THEN ParseString(s, i)
    ELSE IF IsDigit(s[i]) THEN ParseNumber(s, i)
    ELSE IF s[i] = 110 THEN ParseLiteral(s, i, <<110, 117, 108, 108>>, JNull)
    ELSE IF s[i] = 116 THEN ParseLiteral(s, i, <<116, 114, 117, 101>>, JTrue)
    ELSE IF s[i] = 102 THEN ParseLiteral(s, i, <<102, 97, 108, 115, 101>>, JFalse)
    ELSE ParseFail

\* i is the index where a member ("key": value) must start
ParseMembers(s, i, acc) ==
    IF i > Len(s) \/ s[i] # 34 THEN ParseFail
    ELSE
      LET key == ParseString(s, i)
      IN  IF ~key.ok THEN ParseFail
          ELSE
            LET c == SkipWs(s, key.next)
            IN  IF c > Len(s) \/ s[c] # 58 THEN ParseFail
                ELSE
                  LET val == ParseValue(s, SkipWs(s, c + 1))
                  IN  IF ~val.ok THEN ParseFail
                      ELSE
                        LET d    == SkipWs(s, val.next)
                            acc2 == PutMember(acc, key.val.s, val.val)
                        IN  IF d > Len(s) THEN ParseFail
                            ELSE IF s[d] = 125 THEN ParseOk(JObj(acc2), d + 1)
                            ELSE IF s[d] = 44
                                 THEN ParseMembers(s, SkipWs(s, d + 1), acc2)
                            ELSE ParseFail

\* JSON.parse(text): ok = FALSE stands for the SyntaxError it throws
JSONParse(text) ==
    LET r == ParseValue(text, SkipWs(text, 1))
    IN  IF r.ok /\ SkipWs(text, r.next) = Len(text) + 1 THEN r ELSE ParseFail

\* value.key for a parsed value that is not null
RECURSIVE Lookup(_, _)
Lookup(kv, key) ==
    IF kv = <<>> THEN JUndefined
    ELSE IF kv[1].k = key THEN kv[1].v
    ELSE Lookup(Tail(kv), key)

GetProp(v, key) == IF v.t = "obj" THEN Lookup(v.kv, key) ELSE JUndefined

\* JavaScript truthiness of a JSON value
Truthy(v) ==
    CASE v.t = "str" -> v.s # <<>>
      [] v.t = "num" -> v.n # 0
      [] v.t \in {"obj", "true"} -> TRUE
      [] OTHER -> FALSE

(***************************************************************************)
(* streamSSE: the 'data' handler of the downstream response.               *)
(***************************************************************************)
\* 'data: '
Marker == <<100, 97, 116, 97, 58, 32>>
\* message.substring(6)
MarkerLen == 6

startsWith(message, prefix) ==
    /\ Len(message) >= Len(prefix)
    /\ SubSeq(message, 1, Len(prefix)) = prefix

\* index of the leftmost '\n\n' of s, or 0
FirstDelim(s) ==
    LET I == {i \in 1..(Len(s) - 1) : s[i] = 10 /\ s[i + 1] = 10}
    IN  IF I = {} THEN 0 ELSE CHOOSE i \in I : \A k \in I : i <= k

\* s.split('\n\n'): never empty, its last element is what follows the last
\* delimiter
RECURSIVE split(_)
split(s) ==
    LET i == FirstDelim(s)
    IN  IF i = 0 THEN <<s>>
        ELSE <<SubSeq(s, 1, i - 1)>> \o split(SubSeq(s, i + 2, Len(s)))

\* the callback given to streamSSE: the records at which it throws
VARIABLE rFaulty
onDataThrows(jsonStr) == jsonStr \in rFaulty

\* the loop with lastEventData assigned after the call of onData
RECURSIVE forEachMessageAssignAfter(_, _, _)
forEachMessageAssignAfter(lines, lastEventData, calls) ==
    IF lines = <<>> THEN [lastEventData |-> lastEventData, calls |-> calls]
    ELSE
      LET message == Head(lines)
      IN  IF startsWith(message, Marker)
          THEN LET jsonStr == SubSeq(message, MarkerLen + 1, Len(message))
                   data    == JSONParse(jsonStr)
               IN  IF data.ok
                   THEN IF onDataThrows(jsonStr)
                        THEN forEachMessageAssignAfter(Tail(lines), lastEventData,
                                                       Append(calls, jsonStr))
                        ELSE forEachMessageAssignAfter(Tail(lines), data.val,
                                                       Append(calls, jsonStr))
                   ELSE forEachMessageAssignAfter(Tail(lines), lastEventData, calls)
          ELSE forEachMessageAssignAfter(Tail(lines), lastEventData, calls)

\* forEachMessage without the try/catch around JSON.parse: the first
\* malformed frame ends the loop
RECURSIVE forEachMessageNoCatch(_, _, _)
forEachMessageNoCatch(lines, lastEventData, calls) ==
    IF lines = <<>> THEN [lastEventData |-> lastEventData, calls |-> calls]
    ELSE
      LET message == Head(lines)
      IN  IF startsWith(message, Marker)
          THEN LET jsonStr == SubSeq(message, MarkerLen + 1, Len(message))
                   data    == JSONParse(jsonStr)
               IN  IF data.ok
                   THEN forEachMessageNoCatch(Tail(lines), data.val,
                                              Append(calls, jsonStr))
                   ELSE [lastEventData |-> lastEventData, calls |-> calls]
          ELSE forEachMessageNoCatch(Tail(lines), lastEventData, calls)

\* the loop over the complete messages of one chunk: the records parsed so
\* far (lastEventData) and the strings handed to onData, in order
RECURSIVE forEachMessage(_, _, _)
forEachMessage(lines, lastEventData, calls) ==
    IF lines = <<>> THEN [lastEventData |-> lastEventData, calls |-> calls]
    ELSE
      LET message == Head(lines)
      IN  IF startsWith(message, Marker)
          THEN LET jsonStr == SubSeq(message, MarkerLen + 1, Len(message))
                   data    == JSONParse(jsonStr)
               IN  IF data.ok
                   THEN IF onDataThrows(jsonStr)
                        \* onData throws after lastEventData = data: the
                        \* same catch, and on to the next message
                        THEN forEachMessage(Tail(lines), data.val,
                                            Append(calls, jsonStr))
                        ELSE forEachMessage(Tail(lines), data.val,
                                            Append(calls, jsonStr))
                   ELSE forEachMessage(Tail(lines), lastEventData, calls)
          ELSE forEachMessage(Tail(lines), lastEventData, calls)

\* onChunk without lines.pop(): the unterminated rest is handled as a
\* message too
onChunkNoPop(buffer, lastEventData, chunk) ==
    LET lines == split(buffer \o toString(chunk))
        r     == forEachMessage(lines, lastEventData, <<>>)
    IN  [buffer        |-> lines[Len(lines)],
         lastEventData |-> r.lastEventData,
         calls         |-> r.calls]

\* response.on('data'): the new buffer, the new lastEventData and the
\* strings handed to onData while this chunk is handled
onChunk(buffer, lastEventData, chunk) ==
    LET lines == split(buffer \o toString(chunk))
        r     == forEachMessage(SubSeq(lines, 1, Len(lines) - 1), lastEventData, <<>>)
    IN  [buffer        |-> lines[Len(lines)],
         lastEventData |-> r.lastEventData,
         calls         |-> r.calls]

(***************************************************************************)
(* State.                                                                  *)
(***************************************************************************)
VARIABLES
    \* one call of streamSSE with a recording callback
    rInput,      \* the bytes the downstream service sends
    rPos,        \* how many of them the transport has delivered
    rReceived,   \* history: the text of the chunks decoded so far
    rBuffer,     \* buffer
    rLast,       \* lastEventData
    rCalls,      \* the strings onData was called with, in order
    rPromise,    \* the promise streamSSE returned
    \* the server process
    serverStatus,  \* 'idle' | 'busy'
    pc,            \* per request: where its handler stands
    res,           \* per request: the response (status code, events written, ended)
    targetPath,    \* per request: the handler's local targetPath
    sse,           \* per request: buffer and lastEventData of the pending streamSSE
    sent,          \* per request: the downstream requests made, in order
    caught,        \* per request: the error its catch block was entered with
    timers,        \* the pending setTimeout(() => process.exit(code)) callbacks
    proc,          \* the process: running, or exited with a code
    probe,         \* the last answer of GET /status
    fed,           \* requests received plus chunks delivered so far
    body,          \* per request: req.body
    client,        \* per request: is the caller still connected
    recv,          \* history, per request: the bytes each downstream service sent
    \* one call of LLMHelper.generateCommitMessage
    gitStatus,     \* argument gitStatus
    gitDiff,       \* argument gitDiff
    commitPc,      \* where the call stands
    llmRequest,    \* the argument of client.messages.create, once called
    llmOutcome,    \* history: what client.messages.create did
    commitMessage, \* the promise generateCommitMessage returned
    \* one run of the auto-commit sub-pipeline
    acBranch,      \* the branch of the workspace
    acPc,          \* the stage the run stands at
    acEvents,      \* the events emitted so far
    acGit,         \* history: the version-control operations attempted
    acChanges,     \* does the workspace hold uncommitted changes
    \* one ClaudeCodeProvider and one call of its execute
    modelArg,       \* the constructor's argument model
    provOptions,    \* the argument options of execute
    queryMessages,  \* the messages the query stream is going to yield
    queryEnding,    \* how the query stream finishes after them
    queryPos,       \* how many messages the stream has yielded
    queryCall,      \* the argument of query(), once called
    onEventCalls,   \* the events onEvent was called with, in order
    providerPc,     \* where the call of execute stands
    executePromise  \* the promise execute returned

relayVars == <<rInput, rPos, rReceived, rBuffer, rLast, rCalls, rPromise, rFaulty>>
serverVars ==
    <<serverStatus, pc, res, targetPath, sse, sent, caught, timers, proc, probe, fed,
      body, client, recv>>
\* what the server leaves alone, and what the relay on its own leaves alone
commitVars ==
    <<gitStatus, gitDiff, commitPc, llmRequest, llmOutcome, commitMessage>>
autoCommitVars == <<acBranch, acPc, acEvents, acGit, acChanges>>
providerVars ==
    <<modelArg, provOptions, queryMessages, queryEnding, queryPos, queryCall,
      onEventCalls, providerPc, executePromise>>
nonServerVars == <<relayVars, commitVars, autoCommitVars, providerVars>>
nonRelayVars == <<serverVars, commitVars, autoCommitVars, providerVars>>
nonCommitVars == <<relayVars, serverVars, autoCommitVars, providerVars>>
nonAutoCommitVars == <<relayVars, serverVars, commitVars, providerVars>>
nonProviderVars == <<relayVars, serverVars, commitVars, autoCommitVars>>
vars == <<relayVars, serverVars, commitVars, autoCommitVars, providerVars>>

\* what reaches the process in one lifetime: requests received, chunks
\* delivered by the downstream services and disconnections of callers
MaxInputs == 3

Requests == 1..MaxInputs

\* the values an 'error' event or a throw carries: an Error with a message,
\* or a value that is not an Error
StreamErrors ==
    { [isError |-> TRUE,  message |-> "ECONNRESET"],
      [isError |-> FALSE, message |-> ""] }
NoError == [isError |-> FALSE, message |-> "none"]

Pending == [state |-> "pending", value |-> JUndefined, error |-> NoError]

\* let serverStatus: 'idle' | 'busy' = 'idle', and no request yet
NoResponse == [statusCode |-> 0, events |-> <<>>, ended |-> FALSE]
NewSSE == [buffer |-> <<>>, lastEventData |-> JNull]
Running == [running |-> TRUE, code |-> 0, by |-> "none"]
NoProbe == [statusCode |-> 0, status |-> "none"]
NoBody == [prompt |-> "", repoUrl |-> ""]
NothingReceived == [pull |-> <<>>, execute |-> <<>>]

\* no call of generateCommitMessage
NoRequest == [model |-> "", max_tokens |-> 0, role |-> "", status |-> <<>>, diff |-> <<>>]
NoOutcome == [kind |-> "none", content |-> <<>>, error |-> NoError]
CommitIdle ==
    /\ gitStatus = <<>>
    /\ gitDiff = <<>>
    /\ commitPc = "none"
    /\ llmRequest = NoRequest
    /\ llmOutcome = NoOutcome
    /\ commitMessage = Pending

\* no run of the auto-commit sub-pipeline
AutoCommitIdle ==
    /\ acBranch = ""
    /\ acPc = "none"
    /\ acEvents = <<>>
    /\ acGit = <<>>
    /\ acChanges = FALSE

\* no provider, no call of execute
NoOptions ==
    [resumeSessionId |-> JUndefined, hasProviderOptions |-> FALSE,
     model |-> JUndefined, skipPermissions |-> JUndefined,
     permissionMode |-> JUndefined]
NoQuery ==
    [called |-> FALSE, prompt |-> "",
     options |-> [model |-> JUndefined, cwd |-> JUndefined, systemPrompt |-> JUndefined,
                  allowDangerouslySkipPermissions |-> JUndefined,
                  permissionMode |-> "", resume |-> JUndefined]]
ProviderIdle ==
    /\ modelArg = JUndefined
    /\ provOptions = NoOptions
    /\ queryMessages = <<>>
    /\ queryEnding = "returns"
    /\ queryPos = 0
    /\ queryCall = NoQuery
    /\ onEventCalls = <<>>
    /\ providerPc = "none"
    /\ executePromise = Pending

ServerIdle ==
    /\ serverStatus = "idle"
    /\ pc = [j \in Requests |-> "none"]
    /\ res = [j \in Requests |-> NoResponse]
    /\ targetPath = [j \in Requests |-> JUndefined]
    /\ sse = [j \in Requests |-> NewSSE]
    /\ sent = [j \in Requests |-> <<>>]
    /\ caught = [j \in Requests |-> NoError]
    /\ timers = <<>>
    /\ proc = Running
    /\ probe = NoProbe
    /\ fed = 0
    /\ body = [j \in Requests |-> NoBody]
    /\ client = [j \in Requests |-> "connected"]
    /\ recv = [j \in Requests |-> NothingReceived]

(***************************************************************************)
(* Specification SpecRelay: streamSSE alone, fed an input in chunks.       *)
(***************************************************************************)
Pieces ==
    { <<100, 97, 116, 97, 58, 32, 49, 10, 10>>,               \* 'data: 1\n\n'
      <<100, 97, 116, 97, 58, 32, 34, 195, 169, 34, 10, 10>>, \* 'data: "é"\n\n'
      <<100, 97, 116, 97, 58, 32, 123, 10, 10>>,              \* 'data: {\n\n'
      <<100, 97, 116, 97, 58, 32, 50>>,                       \* 'data: 2'
      <<48, 10, 10>>,                                         \* '0\n\n'
      <<10>> }                                                \* '\n'

RECURSIVE Concat(_)
Concat(ss) == IF ss = <<>> THEN <<>> ELSE Head(ss) \o Concat(Tail(ss))

RelayInputs ==
    { Concat(ps) : ps \in UNION { [1..n -> Pieces] : n \in 0..MaxPieces } }

\* the recording callback throws at no record, or at the record '1'
FaultyRecords == { {}, {<<49>>} }

InitRelay ==
    /\ rInput \in RelayInputs
    /\ rFaulty \in FaultyRecords
    /\ rPos = 0
    /\ rReceived = <<>>
    /\ rBuffer = <<>>
    /\ rLast = JNull
    /\ rCalls = <<>>
    /\ rPromise = Pending
    /\ ServerIdle
    /\ CommitIdle
    /\ AutoCommitIdle
    /\ ProviderIdle

\* response.on('data', ...): the transport delivers the next n bytes
RelayData ==
    /\ rPromise.state = "pending"
    /\ \E n \in 1..MaxChunkLen :
         /\ rPos + n <= Len(rInput)
         /\ LET chunk == SubSeq(rInput, rPos + 1, rPos + n)
                r     == onChunk(rBuffer, rLast, chunk)
            IN  /\ rPos' = rPos + n
                /\ rReceived' = rReceived \o toString(chunk)
                /\ rBuffer' = r.buffer
                /\ rLast' = r.lastEventData
                /\ rCalls' = rCalls \o r.calls
    /\ UNCHANGED <<rInput, rFaulty, rPromise, nonRelayVars>>

\* RelayEnd with resolve() given no value
RelayEndNoValue ==
    /\ rPromise.state = "pending"
    /\ rPos = Len(rInput)
    /\ rPromise' = [state |-> "resolved", value |-> JNull, error |-> NoError]
    /\ UNCHANGED <<rInput, rFaulty, rPos, rReceived, rBuffer, rLast, rCalls, nonRelayVars>>

\* response.on('end', ...): resolve(lastEventData)
RelayEnd ==
    /\ rPromise.state = "pending"
    /\ rPos = Len(rInput)
    /\ rPromise' = [state |-> "resolved", value |-> rLast, error |-> NoError]
    /\ UNCHANGED <<rInput, rFaulty, rPos, rReceived, rBuffer, rLast, rCalls, nonRelayVars>>

\* response.on('error', reject) and req.on('error', reject)
RelayError ==
    /\ rPromise.state = "pending"
    /\ \E e \in StreamErrors :
         rPromise' = [state |-> "rejected", value |-> JUndefined, error |-> e]
    /\ UNCHANGED <<rInput, rFaulty, rPos, rReceived, rBuffer, rLast, rCalls, nonRelayVars>>

NextRelay == RelayData \/ RelayEnd \/ RelayError

SpecRelay == InitRelay /\ [][NextRelay]_vars

(***************************************************************************)
(* Specification Spec: the server process.                                 *)
(***************************************************************************)
\* the events the handler writes to the response, without their timestamp
\* and workflowId
Event(type) ==
    [type |-> type, step |-> 0, targetPath |-> JUndefined,
     data |-> JUndefined, raw |-> <<>>, error |-> ""]

\* {type: 'workflow_started', step, stepName, prompt, repoUrl | workspace}
WorkflowStarted(step, workspace) ==
    [Event("workflow_started") EXCEPT !.step = step, !.targetPath = workspace]
\* {type: 'message', message}; the message of step 2 names the workspace
Message(step, workspace) ==
    [Event("message") EXCEPT !.step = step, !.targetPath = workspace]
\* {type: 'pull_progress', data: JSON.parse(data)}
PullProgress(data) == [Event("pull_progress") EXCEPT !.data = data]
\* {type: 'workflow_step_complete', step: 1, targetPath}
StepComplete(tp) ==
    [Event("workflow_step_complete") EXCEPT !.step = 1, !.targetPath = tp]
\* `data: ${data}\n\n`: the text of a frame of the execution service
Forwarded(raw) == [Event("forwarded") EXCEPT !.raw = raw]
WorkflowComplete == Event("workflow_complete")
\* {type: 'workflow_error', error}
WorkflowError(text) == [Event("workflow_error") EXCEPT !.error = text]

\* errorText without the instanceof test: a value that is no Error has no
\* message
errorTextNoTest(error) == error.message

\* error instanceof Error ? error.message : 'Unknown error'
errorText(error) == IF error.isError THEN error.message ELSE "Unknown error"

\* the bodies of POST /api/workflow: "" stands for an absent or empty field
Bodies == [prompt : {"", "p"}, repoUrl : {"", "r"}]

\* what the pull service sends, chunk by chunk
PullChunks ==
    { \* 'data: {"targetPath":"/w"}\n\n'
      <<100, 97, 116, 97, 58, 32, 123, 34, 116, 97, 114, 103, 101, 116, 80, 97,
        116, 104, 34, 58, 34, 47, 119, 34, 125, 10, 10>>,
      \* 'data: {"type":"error"}\n\n'
      <<100, 97, 116, 97, 58, 32, 123, 34, 116, 121, 112, 101, 34, 58, 34, 101,
        114, 114, 111, 114, 34, 125, 10, 10>>,
      \* 'data: {"targetPath":'
      <<100, 97, 116, 97, 58, 32, 123, 34, 116, 97, 114, 103, 101, 116, 80, 97,
        116, 104, 34, 58>>,
      \* '"/x"}\n\n'
      <<34, 47, 120, 34, 125, 10, 10>>,
      \* 'data: {\n\n'
      <<100, 97, 116, 97, 58, 32, 123, 10, 10>>,
      \* 'data: {"targetPath":"/' and the first byte of 'é'
      <<100, 97, 116, 97, 58, 32, 123, 34, 116, 97, 114, 103, 101, 116, 80, 97,
        116, 104, 34, 58, 34, 47, 195>>,
      \* the second byte of 'é' and '"}\n\n'
      <<169, 34, 125, 10, 10>> }

\* what the execution service sends, chunk by chunk
ExecChunks ==
    { \* 'data: {"a": 1}\n\n'
      <<100, 97, 116, 97, 58, 32, 123, 34, 97, 34, 58, 32, 49, 125, 10, 10>>,
      \* 'data: {\n\n'
      <<100, 97, 116, 97, 58, 32, 123, 10, 10>>,
      \* 'data: 1'
      <<100, 97, 116, 97, 58, 32, 49>>,
      \* '\n\n'
      <<10, 10>>,
      \* 'data: "' and the first byte of 'é'
      <<100, 97, 116, 97, 58, 32, 34, 195>>,
      \* the second byte of 'é' and '"\n\n'
      <<169, 34, 10, 10>> }

\* 'targetPath', 'type', 'error'
KeyTargetPath == <<116, 97, 114, 103, 101, 116, 80, 97, 116, 104>>
KeyType == <<116, 121, 112, 101>>
TextError == <<101, 114, 114, 111, 114>>

\* no streamSSE call of its own
RelayIdle ==
    /\ rInput = <<>>
    /\ rPos = 0
    /\ rReceived = <<>>
    /\ rBuffer = <<>>
    /\ rLast = JNull
    /\ rCalls = <<>>
    /\ rPromise = Pending
    /\ rFaulty = {}

Init ==
    /\ RelayIdle
    /\ ServerIdle
    /\ CommitIdle
    /\ AutoCommitIdle
    /\ ProviderIdle

\* app.get('/status'): res.json({status: serverStatus, ...})
GetStatus ==
    /\ proc.running
    /\ probe' = [statusCode |-> 200, status |-> serverStatus]
    /\ UNCHANGED <<nonServerVars, body, client, recv, caught, serverStatus, pc, res, targetPath, sse, sent,
                   timers, proc, fed>>

\* the handler with the flag set before the validation
PostBusyFirst(j) ==
    /\ proc.running
    /\ pc[j] = "none"
    /\ \A k \in Requests : k < j => pc[k] # "none"
    /\ fed < MaxInputs
    /\ \E b \in Bodies :
       /\ body' = [body EXCEPT ![j] = b]
       /\ IF b.prompt = "" \/ b.repoUrl = ""
         THEN /\ res' = [res EXCEPT ![j] =
                           [statusCode |-> 400, events |-> <<>>, ended |-> TRUE]]
              /\ pc' = [pc EXCEPT ![j] = "rejected"]
              /\ serverStatus' = "busy"
              /\ UNCHANGED <<targetPath, sse, sent>>
         ELSE /\ serverStatus' = "busy"
              /\ res' = [res EXCEPT ![j] =
                           [statusCode |-> 200,
                            events |-> << WorkflowStarted(1, JUndefined),
                                          Message(1, JUndefined) >>,
                            ended |-> FALSE]]
              /\ targetPath' = [targetPath EXCEPT ![j] = JStr(<<>>)]
              /\ sse' = [sse EXCEPT ![j] = NewSSE]
              /\ sent' = [sent EXCEPT ![j] =
                            <<[to |-> "pull", workspace |-> JUndefined]>>]
              /\ pc' = [pc EXCEPT ![j] = "pull"]
    /\ fed' = fed + 1
    /\ UNCHANGED <<nonServerVars, client, recv, caught, timers, proc, probe>>

\* app.post('/api/workflow'), up to its first await: validation, busy,
\* the two first events, the pull request
Post(j) ==
    /\ proc.running
    /\ pc[j] = "none"
    /\ \A k \in Requests : k < j => pc[k] # "none"
    /\ fed < MaxInputs
    /\ \E b \in Bodies :
       /\ body' = [body EXCEPT ![j] = b]
       /\ IF b.prompt = "" \/ b.repoUrl = ""
         THEN /\ res' = [res EXCEPT ![j] =
                           [statusCode |-> 400, events |-> <<>>, ended |-> TRUE]]
              /\ pc' = [pc EXCEPT ![j] = "rejected"]
              /\ UNCHANGED <<serverStatus, targetPath, sse, sent>>
         ELSE /\ serverStatus' = "busy"
              /\ res' = [res EXCEPT ![j] =
                           [statusCode |-> 200,
                            events |-> << WorkflowStarted(1, JUndefined),
                                          Message(1, JUndefined) >>,
                            ended |-> FALSE]]
              /\ targetPath' = [targetPath EXCEPT ![j] = JStr(<<>>)]
              /\ sse' = [sse EXCEPT ![j] = NewSSE]
              /\ sent' = [sent EXCEPT ![j] =
                            <<[to |-> "pull", workspace |-> JUndefined]>>]
              /\ pc' = [pc EXCEPT ![j] = "pull"]
    /\ fed' = fed + 1
    /\ UNCHANGED <<nonServerVars, client, recv, caught, timers, proc, probe>>

\* the onData callback of the pull step, for the strings of one chunk
RECURSIVE pullOnData(_, _, _)
pullOnData(calls, events, tp) ==
    IF calls = <<>> THEN [events |-> events, targetPath |-> tp]
    ELSE
      LET parsed == JSONParse(Head(calls)).val
          \* parsed.targetPath throws for null, and the throw is ignored
          path   == IF parsed.t = "null" THEN JUndefined
                    ELSE GetProp(parsed, KeyTargetPath)
      IN  pullOnData(Tail(calls),
                     Append(events, PullProgress(parsed)),
                     IF Truthy(path) THEN path ELSE tp)

\* the pull callback with the execution request sent as soon as a frame arrives
PullDataStartsExecution(j) ==
    /\ proc.running
    /\ pc[j] = "pull"
    /\ fed < MaxInputs
    /\ \E chunk \in PullChunks :
         LET r  == onChunk(sse[j].buffer, sse[j].lastEventData, chunk)
             cb == pullOnData(r.calls, res[j].events, targetPath[j])
         IN  /\ sse' = [sse EXCEPT ![j] =
                          [buffer |-> r.buffer, lastEventData |-> r.lastEventData]]
             /\ res' = [res EXCEPT ![j].events = cb.events]
             /\ targetPath' = [targetPath EXCEPT ![j] = cb.targetPath]
             /\ recv' = [recv EXCEPT ![j].pull = @ \o chunk]
             /\ sent' = [sent EXCEPT ![j] =
                           Append(@, [to |-> "execute", workspace |-> cb.targetPath])]
    /\ fed' = fed + 1
    /\ UNCHANGED <<nonServerVars, body, client, caught, serverStatus, pc, timers, proc, probe>>

\* a chunk of the pull response arrives
PullData(j) ==
    /\ proc.running
    /\ pc[j] = "pull"
    /\ fed < MaxInputs
    /\ \E chunk \in PullChunks :
         LET r  == onChunk(sse[j].buffer, sse[j].lastEventData, chunk)
             cb == pullOnData(r.calls, res[j].events, targetPath[j])
         IN  /\ sse' = [sse EXCEPT ![j] =
                          [buffer |-> r.buffer, lastEventData |-> r.lastEventData]]
             /\ res' = [res EXCEPT ![j].events = cb.events]
             /\ targetPath' = [targetPath EXCEPT ![j] = cb.targetPath]
             /\ recv' = [recv EXCEPT ![j].pull = @ \o chunk]
    /\ fed' = fed + 1
    /\ UNCHANGED <<nonServerVars, body, client, caught, serverStatus, pc, sent, timers, proc, probe>>

\* the continuation with step 2 announced before step 1 is reported complete
PullEndStartedFirst(j) ==
    /\ proc.running
    /\ pc[j] = "pull"
    /\ res' = [res EXCEPT ![j].events =
                 @ \o << WorkflowStarted(2, targetPath[j]),
                         StepComplete(targetPath[j]),
                         Message(2, targetPath[j]) >>]
    /\ sent' = [sent EXCEPT ![j] =
                  Append(@, [to |-> "execute", workspace |-> targetPath[j]])]
    /\ sse' = [sse EXCEPT ![j] = NewSSE]
    /\ pc' = [pc EXCEPT ![j] = "execute"]
    /\ UNCHANGED <<nonServerVars, body, client, recv, caught, serverStatus, targetPath, timers, proc, probe, fed>>

\* the pull response ends: streamSSE resolves and the handler goes on to
\* step 2, up to its second await
PullEnd(j) ==
    /\ proc.running
    /\ pc[j] = "pull"
    /\ res' = [res EXCEPT ![j].events =
                 @ \o << StepComplete(targetPath[j]),
                         WorkflowStarted(2, targetPath[j]),
                         Message(2, targetPath[j]) >>]
    /\ sent' = [sent EXCEPT ![j] =
                  Append(@, [to |-> "execute", workspace |-> targetPath[j]])]
    /\ sse' = [sse EXCEPT ![j] = NewSSE]
    /\ pc' = [pc EXCEPT ![j] = "execute"]
    /\ UNCHANGED <<nonServerVars, body, client, recv, caught, serverStatus, targetPath, timers, proc, probe, fed>>

\* the catch block with the exit code of a success
catchExitZero(j, error) ==
    /\ res' = [res EXCEPT ![j].events = Append(@, WorkflowError(errorText(error))),
                          ![j].ended = TRUE]
    /\ timers' = Append(timers, [request |-> j, code |-> 0])
    /\ caught' = [caught EXCEPT ![j] = error]
    /\ pc' = [pc EXCEPT ![j] = "done"]

\* the catch block: workflow_error, res.end(), setTimeout(exit(1))
catch(j, error) ==
    /\ res' = [res EXCEPT ![j].events = Append(@, WorkflowError(errorText(error))),
                          ![j].ended = TRUE]
    /\ timers' = Append(timers, [request |-> j, code |-> 1])
    /\ caught' = [caught EXCEPT ![j] = error]
    /\ pc' = [pc EXCEPT ![j] = "done"]

\* the pull request or response raises 'error': streamSSE rejects
PullError(j) ==
    /\ proc.running
    /\ pc[j] = "pull"
    /\ \E error \in StreamErrors : catch(j, error)
    /\ UNCHANGED <<nonServerVars, body, client, recv, serverStatus, targetPath, sse, sent, proc, probe, fed>>

\* the onData callback of the execution step, for the strings of one chunk
execOnData(calls, events) ==
    events \o [i \in 1..Len(calls) |-> Forwarded(calls[i])]

\* a chunk of the execution response arrives
ExecData(j) ==
    /\ proc.running
    /\ pc[j] = "execute"
    /\ fed < MaxInputs
    /\ \E chunk \in ExecChunks :
         LET r == onChunk(sse[j].buffer, sse[j].lastEventData, chunk)
         IN  /\ sse' = [sse EXCEPT ![j] =
                          [buffer |-> r.buffer, lastEventData |-> r.lastEventData]]
             /\ res' = [res EXCEPT ![j].events = execOnData(r.calls, @)]
             /\ recv' = [recv EXCEPT ![j].execute = @ \o chunk]
    /\ fed' = fed + 1
    /\ UNCHANGED <<nonServerVars, body, client, caught, serverStatus, pc, targetPath, sent, timers, proc, probe>>

\* ExecEnd with a throw after workflow_complete was written: the catch
\* block writes workflow_error after it
ExecEndThenCatch(j) ==
    /\ proc.running
    /\ pc[j] = "execute"
    /\ res' = [res EXCEPT ![j].events =
                 @ \o <<WorkflowComplete, WorkflowError("Unknown error")>>,
                          ![j].ended = TRUE]
    /\ timers' = Append(timers, [request |-> j, code |-> 1])
    /\ pc' = [pc EXCEPT ![j] = "done"]
    /\ UNCHANGED <<nonServerVars, body, client, recv, caught, serverStatus, targetPath, sse, sent, proc,
                   probe, fed>>

\* the execution response ends: workflow_complete, res.end(),
\* setTimeout(exit(0))
ExecEnd(j) ==
    /\ proc.running
    /\ pc[j] = "execute"
    /\ res' = [res EXCEPT ![j].events = Append(@, WorkflowComplete),
                          ![j].ended = TRUE]
    /\ timers' = Append(timers, [request |-> j, code |-> 0])
    /\ pc' = [pc EXCEPT ![j] = "done"]
    /\ UNCHANGED <<nonServerVars, body, client, recv, caught, serverStatus, targetPath, sse, sent, proc, probe, fed>>

\* the failure of step 2 with the flag set back to idle
ExecErrorBackToIdle(j) ==
    /\ proc.running
    /\ pc[j] = "execute"
    /\ \E error \in StreamErrors : catch(j, error)
    /\ serverStatus' = "idle"
    /\ UNCHANGED <<nonServerVars, body, client, recv, targetPath, sse, sent, proc, probe, fed>>

\* the execution request or response raises 'error': streamSSE rejects
ExecError(j) ==
    /\ proc.running
    /\ pc[j] = "execute"
    /\ \E error \in StreamErrors : catch(j, error)
    /\ UNCHANGED <<nonServerVars, body, client, recv, serverStatus, targetPath, sse, sent, proc, probe, fed>>

\* the caller closes the connection while its request is handled: no
\* handler is registered for it (no req.on('close'), no abort of the
\* downstream request), so nothing of the handler's state changes
ClientDisconnect(j) ==
    /\ proc.running
    /\ pc[j] \in {"pull", "execute"}
    /\ client[j] = "connected"
    /\ fed < MaxInputs
    /\ client' = [client EXCEPT ![j] = "gone"]
    /\ fed' = fed + 1
    /\ UNCHANGED <<nonServerVars, body, recv, caught, serverStatus, pc, res,
                   targetPath, sse, sent, timers, proc, probe>>

\* the oldest pending timer fires: process.exit(code)
Exit ==
    /\ proc.running
    /\ timers # <<>>
    /\ proc' = [running |-> FALSE, code |-> Head(timers).code, by |-> "timer"]
    /\ UNCHANGED <<nonServerVars, body, client, recv, caught, serverStatus, pc, res, targetPath, sse, sent,
                   timers, probe, fed>>

\* process.on('SIGTERM' | 'SIGINT'): process.exit(0)
Signal ==
    /\ proc.running
    /\ proc' = [running |-> FALSE, code |-> 0, by |-> "signal"]
    /\ UNCHANGED <<nonServerVars, body, client, recv, caught, serverStatus, pc, res, targetPath, sse, sent,
                   timers, probe, fed>>

Next ==
    \/ GetStatus
    \/ \E j \in Requests : Post(j)
    \/ \E j \in Requests : PullData(j)
    \/ \E j \in Requests : PullEnd(j)
    \/ \E j \in Requests : PullError(j)
    \/ \E j \in Requests : ExecData(j)
    \/ \E j \in Requests : ExecEnd(j)
    \/ \E j \in Requests : ExecError(j)
    \/ \E j \in Requests : ClientDisconnect(j)
    \/ Exit
    \/ Signal

Spec == Init /\ [][Next]_vars

(***************************************************************************)
(* LLMHelper.generateCommitMessage (specification SpecCommit).             *)
(***************************************************************************)
\* gitDiff.substring(0, 4000)
DiffLimit == 4000
\* max_tokens: 200
MaxTokens == 200

\* String.prototype.substring(start, end) for 0 <= start <= end
substring(text, start, end) ==
    SubSeq(text, start + 1, IF end > Len(text) THEN Len(text) ELSE end)

\* the white space and line terminators String.prototype.trim() strips
IsTrimWs(c) ==
    c \in {9, 10, 11, 12, 13, 32, 160, 5760, 8232, 8233, 8239, 8287, 12288, 65279}
       \cup 8192..8202

RECURSIVE trimStart(_)
trimStart(text) ==
    IF text # <<>> /\ IsTrimWs(Head(text)) THEN trimStart(Tail(text)) ELSE text

RECURSIVE trimEnd(_)
trimEnd(text) ==
    IF text # <<>> /\ IsTrimWs(text[Len(text)])
    THEN trimEnd(SubSeq(text, 1, Len(text) - 1))
    ELSE text

trim(text) == trimEnd(trimStart(text))

\* 'chore: auto-commit changes'
Fallback ==
    <<99, 104, 111, 114, 101, 58, 32, 97, 117, 116, 111, 45, 99, 111, 109, 109,
      105, 116, 32, 99, 104, 97, 110, 103, 101, 115>>

\* the request with the end of the diff instead of its beginning
createRequestDiffTail(status, diff) ==
    [model |-> "claude-haiku-4-5-20251001",
     max_tokens |-> MaxTokens,
     role |-> "user",
     status |-> status,
     diff |-> substring(diff, IF Len(diff) > DiffLimit THEN Len(diff) - DiffLimit ELSE 0,
                        Len(diff))]
\* the argument of client.messages.create: the template literal keeps
\* gitStatus whole and the diff cut at DiffLimit, between fixed texts
createRequest(status, diff) ==
    [model |-> "claude-haiku-4-5-20251001",
     max_tokens |-> MaxTokens,
     role |-> "user",
     status |-> status,
     diff |-> substring(diff, 0, DiffLimit)]

Returned(text) == [threw |-> FALSE, value |-> text, error |-> NoError]
Thrown(error) == [threw |-> TRUE, value |-> <<>>, error |-> error]

TypeError == [isError |-> TRUE, message |-> "Cannot read properties of undefined"]
UnexpectedType == [isError |-> TRUE, message |-> "Unexpected response type from LLM"]

\* the try block after the await: response.content[0], the test of its
\* type, and content.text.trim()
afterCreate(content) ==
    IF content = <<>> THEN Thrown(TypeError)
    ELSE IF content[1].type # "text" THEN Thrown(UnexpectedType)
    ELSE Returned(trim(content[1].text))

\* the catch block with the error thrown again instead of the fallback
catchBlockRethrow(error) ==
    [state |-> "rejected", value |-> JUndefined, error |-> error]
\* the catch block: logger.error, then return the fallback message
catchBlock(error) ==
    [state |-> "resolved", value |-> JStr(Fallback), error |-> NoError]

\* the promise generateCommitMessage returns once client.messages.create
\* has thrown, or its promise has been rejected or resolved
generateCommitMessage(outcome) ==
    LET r == IF outcome.kind \in {"throws", "rejects"}
             THEN Thrown(outcome.error)
             ELSE afterCreate(outcome.content)
    IN  IF r.threw THEN catchBlock(r.error)
        ELSE [state |-> "resolved", value |-> JStr(r.value), error |-> NoError]

\* n characters '+'
Chars(n) == [i \in 1..n |-> 43]

\* 'M a' and ''
Statuses == { <<77, 32, 97>>, <<>> }
\* '', '+a', diffs of exactly and of one more than DiffLimit characters, and
\* one of DiffLimit + 1 characters that starts with 'a'
Diffs ==
    { <<>>, <<43, 97>>, Chars(DiffLimit), Chars(DiffLimit + 1),
      <<97>> \o Chars(DiffLimit) }

TextBlock(text) == [type |-> "text", text |-> text]
ToolUseBlock == [type |-> "tool_use", text |-> <<>>]
\* response.content
Contents ==
    { <<>>,
      <<ToolUseBlock>>,
      \* 'feat: x'
      <<TextBlock(<<102, 101, 97, 116, 58, 32, 120>>)>>,
      \* '  fix: y\n'
      <<TextBlock(<<32, 32, 102, 105, 120, 58, 32, 121, 10>>)>>,
      \* '   '
      <<TextBlock(<<32, 32, 32>>)>>,
      <<TextBlock(<<>>)>>,
      <<ToolUseBlock, TextBlock(<<102, 101, 97, 116, 58, 32, 120>>)>>,
      <<TextBlock(<<102, 101, 97, 116, 58, 32, 120>>), ToolUseBlock>>,
      \* 'a b'
      <<TextBlock(<<97, 32, 98>>), TextBlock(<<102, 101, 97, 116, 58, 32, 120>>)>> }

\* what the SDK rejects with: a timeout, an API error; and a value that is
\* not an Error
CreateErrors ==
    { [isError |-> TRUE, message |-> "Request timed out."],
      [isError |-> TRUE, message |-> "401 authentication_error"],
      [isError |-> FALSE, message |-> ""] }

InitCommit ==
    /\ RelayIdle
    /\ ServerIdle
    /\ gitStatus \in Statuses
    /\ gitDiff \in Diffs
    /\ commitPc = "none"
    /\ llmRequest = NoRequest
    /\ llmOutcome = NoOutcome
    /\ commitMessage = Pending
    /\ AutoCommitIdle
    /\ ProviderIdle

\* generateCommitMessage is called and runs up to its await: the request is
\* built and handed to client.messages.create, which returns a promise
CommitCall ==
    /\ commitPc = "none"
    /\ llmRequest' = createRequest(gitStatus, gitDiff)
    /\ commitPc' = "awaiting"
    /\ UNCHANGED <<nonCommitVars, gitStatus, gitDiff, llmOutcome, commitMessage>>

\* client.messages.create throws before returning a promise
CreateThrows ==
    /\ commitPc = "none"
    /\ \E error \in CreateErrors :
          LET outcome == [kind |-> "throws", content |-> <<>>, error |-> error]
          IN  /\ llmOutcome' = outcome
              /\ commitMessage' = generateCommitMessage(outcome)
    /\ llmRequest' = createRequest(gitStatus, gitDiff)
    /\ commitPc' = "returned"
    /\ UNCHANGED <<nonCommitVars, gitStatus, gitDiff>>

\* the promise of client.messages.create is rejected
CreateRejects ==
    /\ commitPc = "awaiting"
    /\ \E error \in CreateErrors :
          LET outcome == [kind |-> "rejects", content |-> <<>>, error |-> error]
          IN  /\ llmOutcome' = outcome
              /\ commitMessage' = generateCommitMessage(outcome)
    /\ commitPc' = "returned"
    /\ UNCHANGED <<nonCommitVars, gitStatus, gitDiff, llmRequest>>

\* the promise of client.messages.create is resolved with a response
CreateResolves ==
    /\ commitPc = "awaiting"
    /\ \E content \in Contents :
          LET outcome == [kind |-> "resolves", content |-> content, error |-> NoError]
          IN  /\ llmOutcome' = outcome
              /\ commitMessage' = generateCommitMessage(outcome)
    /\ commitPc' = "returned"
    /\ UNCHANGED <<nonCommitVars, gitStatus, gitDiff, llmRequest>>

NextCommit == CommitCall \/ CreateThrows \/ CreateRejects \/ CreateResolves

SpecCommit == InitCommit /\ [][NextCommit]_vars

(***************************************************************************)
(* The auto-commit sub-pipeline (specification SpecAutoCommit).            *)
(* Its code (orchestrator.ts, gitHelper.ts) is not part of the sources:    *)
(* the stages and their events follow AUTO_COMMIT_SSE_EVENTS.md and        *)
(* section 4.2 of the specification; the commit message is the one         *)
(* generateCommitMessage returns.                                          *)
(***************************************************************************)
\* {type: 'commit_progress', stage, message, branch, timestamp} with the
\* optional commitMessage, commitHash and error absent
CommitProgress(stage, branch) ==
    [type |-> "commit_progress", stage |-> stage, branch |-> branch,
     commitMessage |-> JUndefined, commitHash |-> "", error |-> ""]

\* the outer pipeline's {type: 'completed', sessionId, duration_ms}
JobCompleted ==
    [type |-> "completed", stage |-> "", branch |-> "",
     commitMessage |-> JUndefined, commitHash |-> "", error |-> ""]

Branches == {"main", "claude/auto-commit"}
CommitHashes == {"abc123def456", "0f9e8d7c6b5a"}
GitErrors == {"Error: Authentication failed", "Error: Unable to generate commit message"}

\* what the text-generation capability may do when asked for a message
LlmOutcomes ==
    {[kind |-> "resolves", content |-> c, error |-> NoError] : c \in Contents}
    \cup {[kind |-> "rejects", content |-> <<>>, error |-> e] : e \in CreateErrors}

GitOp(op, ok, error) == [op |-> op, ok |-> ok, error |-> error]

InitAutoCommit ==
    /\ RelayIdle
    /\ ServerIdle
    /\ CommitIdle
    /\ acBranch \in Branches
    /\ acPc = "none"
    /\ acEvents = <<>>
    /\ acGit = <<>>
    /\ acChanges \in BOOLEAN
    /\ ProviderIdle

\* stage 1: the run starts and looks for uncommitted changes
Analyze ==
    /\ acPc = "none"
    /\ acEvents' = Append(acEvents, CommitProgress("analyzing", acBranch))
    /\ acPc' = "analyzing"
    /\ UNCHANGED <<nonAutoCommitVars, acChanges, acBranch, acGit>>

\* the workspace has changes: stage 2, the commit message is asked for
HasChanges ==
    /\ acPc = "analyzing"
    /\ acChanges
    /\ acGit' = Append(acGit, GitOp("status", TRUE, ""))
    /\ acEvents' = Append(acEvents, CommitProgress("generating_message", acBranch))
    /\ acPc' = "generating_message"
    /\ UNCHANGED <<nonAutoCommitVars, acChanges, acBranch>>

\* the workspace has no changes and the run goes on to the commit message
NoChangesGoesOn ==
    /\ acPc = "analyzing"
    /\ ~acChanges
    /\ acGit' = Append(acGit, GitOp("status", TRUE, ""))
    /\ acEvents' = Append(acEvents, CommitProgress("generating_message", acBranch))
    /\ acPc' = "generating_message"
    /\ UNCHANGED <<nonAutoCommitVars, acChanges, acBranch>>
\* the workspace has no changes: directly to completed, without an error
NoChanges ==
    /\ acPc = "analyzing"
    /\ ~acChanges
    /\ acGit' = Append(acGit, GitOp("status", TRUE, ""))
    /\ acEvents' = Append(acEvents, CommitProgress("completed", acBranch))
    /\ acPc' = "completed"
    /\ UNCHANGED <<nonAutoCommitVars, acChanges, acBranch>>

\* generateCommitMessage has returned: stage 3, the commit is attempted with
\* the generated or the fallback message
Committing ==
    /\ acPc = "generating_message"
    /\ \E outcome \in LlmOutcomes :
          acEvents' = Append(acEvents,
              [CommitProgress("committing", acBranch) EXCEPT
                  !.commitMessage = generateCommitMessage(outcome).value])
    /\ acPc' = "committing"
    /\ UNCHANGED <<nonAutoCommitVars, acChanges, acBranch, acGit>>

\* the commit failed and the run is reported as failed all the same
CommitFailedAborts(error) ==
    /\ acEvents' = acEvents \o
          << [type |-> "error", stage |-> "", branch |-> "",
              commitMessage |-> JUndefined, commitHash |-> "", error |-> error] >>
    /\ acPc' = "done"
\* the commit failed: the run ends with a completed event carrying the error
CommitFailed(error) ==
    /\ acEvents' = Append(acEvents,
          [type |-> "commit_progress", stage |-> "completed", branch |-> "",
           commitMessage |-> JUndefined, commitHash |-> "", error |-> error])
    /\ acPc' = "completed"

\* the commit was made: stage 4 carries its hash, stage 5 attempts the push
Committed(hash) ==
    LET msg == acEvents[Len(acEvents)].commitMessage
    IN  /\ acEvents' = acEvents \o
              << [CommitProgress("committed", acBranch) EXCEPT
                     !.commitMessage = msg, !.commitHash = hash],
                 [CommitProgress("pushing", acBranch) EXCEPT !.commitHash = hash] >>
        /\ acPc' = "pushing"

\* the commit attempt returns
Commit ==
    /\ acPc = "committing"
    /\ \/ \E hash \in CommitHashes :
             /\ acGit' = Append(acGit, GitOp("commit", TRUE, ""))
             /\ Committed(hash)
       \/ \E error \in GitErrors :
             /\ acGit' = Append(acGit, GitOp("commit", FALSE, error))
             /\ CommitFailed(error)
    /\ UNCHANGED <<nonAutoCommitVars, acChanges, acBranch>>

\* the push succeeded: stage 6a, then the run's completed event
Pushed ==
    LET hash == acEvents[Len(acEvents)].commitHash
    IN  /\ acEvents' = acEvents \o
              << [CommitProgress("pushed", acBranch) EXCEPT !.commitHash = hash],
                 CommitProgress("completed", acBranch) >>
        /\ acPc' = "completed"

\* the push failed and the failure is put on the run's completed event
PushFailedFatal(error) ==
    /\ acEvents' = acEvents \o
          << [CommitProgress("push_failed", acBranch) EXCEPT !.error = error],
             [CommitProgress("completed", acBranch) EXCEPT !.error = error] >>
    /\ acPc' = "completed"
\* the push failed: stage 6b carries the error, then the run's completed
\* event without one
PushFailed(error) ==
    /\ acEvents' = acEvents \o
          << [CommitProgress("push_failed", acBranch) EXCEPT !.error = error],
             CommitProgress("completed", acBranch) >>
    /\ acPc' = "completed"

\* the push attempt returns
Push ==
    /\ acPc = "pushing"
    /\ \/ /\ acGit' = Append(acGit, GitOp("push", TRUE, ""))
          /\ Pushed
       \/ \E error \in GitErrors :
             /\ acGit' = Append(acGit, GitOp("push", FALSE, error))
             /\ PushFailed(error)
    /\ UNCHANGED <<nonAutoCommitVars, acChanges, acBranch>>

\* the outer pipeline's end without its completed event
OuterCompletedSilent ==
    /\ acPc = "completed"
    /\ acPc' = "done"
    /\ UNCHANGED <<nonAutoCommitVars, acChanges, acBranch, acGit, acEvents>>
\* the run is over: the outer pipeline emits its own completed event
OuterCompleted ==
    /\ acPc = "completed"
    /\ acEvents' = Append(acEvents, JobCompleted)
    /\ acPc' = "done"
    /\ UNCHANGED <<nonAutoCommitVars, acChanges, acBranch, acGit>>

NextAutoCommit ==
    \/ Analyze
    \/ HasChanges
    \/ NoChanges
    \/ Committing
    \/ Commit
    \/ Push
    \/ OuterCompleted

\* every step is the return of an operation that terminates
SpecAutoCommit ==
    InitAutoCommit /\ [][NextAutoCommit]_vars /\ WF_vars(NextAutoCommit)

(***************************************************************************)
(* ClaudeCodeProvider (specification SpecProvider).                        *)
(***************************************************************************)
\* the longest query stream
MaxMessages == 3

\* 'claude-sonnet-4-5-20250929'
DefaultModel ==
    <<99, 108, 97, 117, 100, 101, 45, 115, 111, 110, 110, 101, 116, 45, 52, 45,
      53, 45, 50, 48, 50, 53, 48, 57, 50, 57>>

\* the workspace the provider was constructed with: '/w'
Workspace == JStr(<<47, 119>>)

\* constructor: this.model = model || 'claude-sonnet-4-5-20250929'
thisModel(model) == IF Truthy(model) THEN model ELSE JStr(DefaultModel)

\* a ?? b
NullishOr(a, b) == IF a.t \in {"null", "undefined"} THEN b ELSE a

\* createQueryOptions with || in the place of ?? for skipPermissions
createQueryOptionsSkipOr(model, options) ==
    LET resumeSessionId == options.resumeSessionId
        providerOptions ==
            IF options.hasProviderOptions
            THEN [model |-> options.model, skipPermissions |-> options.skipPermissions,
                  permissionMode |-> options.permissionMode]
            ELSE [model |-> JUndefined, skipPermissions |-> JUndefined,
                  permissionMode |-> JUndefined]
        skipPermissions == IF Truthy(providerOptions.skipPermissions)
                           THEN providerOptions.skipPermissions ELSE JTrue
    IN  [model |-> IF Truthy(providerOptions.model) THEN providerOptions.model
                   ELSE thisModel(model),
         cwd |-> Workspace,
         systemPrompt |-> Workspace,
         allowDangerouslySkipPermissions |-> skipPermissions,
         permissionMode |-> IF Truthy(skipPermissions) THEN "bypassPermissions"
                            ELSE "default",
         resume |-> IF Truthy(resumeSessionId) THEN resumeSessionId ELSE JUndefined]

\* createQueryOptions(options), for a provider constructed with model
createQueryOptions(model, options) ==
    LET resumeSessionId == options.resumeSessionId
        providerOptions ==
            IF options.hasProviderOptions
            THEN [model |-> options.model, skipPermissions |-> options.skipPermissions,
                  permissionMode |-> options.permissionMode]
            ELSE [model |-> JUndefined, skipPermissions |-> JUndefined,
                  permissionMode |-> JUndefined]
        skipPermissions == NullishOr(providerOptions.skipPermissions, JTrue)
    IN  [model |-> IF Truthy(providerOptions.model) THEN providerOptions.model
                   ELSE thisModel(model),
         cwd |-> Workspace,
         systemPrompt |-> Workspace,
         allowDangerouslySkipPermissions |-> skipPermissions,
         permissionMode |-> IF Truthy(skipPermissions) THEN "bypassPermissions"
                            ELSE "default",
         resume |-> IF Truthy(resumeSessionId) THEN resumeSessionId ELSE JUndefined]

\* the messages a query stream yields
SDKMessages ==
    { [type |-> "system", uuid |-> 1],
      [type |-> "assistant", uuid |-> 2],
      [type |-> "result", uuid |-> 3] }

Streams == UNION {[1..n -> SDKMessages] : n \in 0..MaxMessages}

\* undefined, '', 'm'
ModelValues == {JUndefined, JStr(<<>>), JStr(<<109>>)}
\* undefined, '', 's1'
SessionValues == {JUndefined, JStr(<<>>), JStr(<<115, 49>>)}
SkipValues == {JUndefined, JNull, JTrue, JFalse}
\* undefined, 'bypassPermissions', 'default'
PermissionModeValues ==
    {JUndefined,
     JStr(<<98, 121, 112, 97, 115, 115, 80, 101, 114, 109, 105, 115, 115, 105,
            111, 110, 115>>),
     JStr(<<100, 101, 102, 97, 117, 108, 116>>)}

ProviderOptionsValues ==
    {NoOptions}
    \cup [resumeSessionId : SessionValues, hasProviderOptions : {TRUE},
          model : ModelValues, skipPermissions : SkipValues,
          permissionMode : PermissionModeValues]
    \cup {[NoOptions EXCEPT !.resumeSessionId = r] : r \in SessionValues}

QueryError == [isError |-> TRUE, message |-> "Claude Code process exited with code 1"]
CallbackError == [isError |-> TRUE, message |-> "onEvent failed"]

InitProvider ==
    /\ RelayIdle
    /\ ServerIdle
    /\ CommitIdle
    /\ AutoCommitIdle
    /\ modelArg \in ModelValues
    /\ provOptions \in ProviderOptionsValues
    /\ queryMessages \in Streams
    /\ queryEnding \in {"returns", "throws"}
    /\ queryPos = 0
    /\ queryCall = NoQuery
    /\ onEventCalls = <<>>
    /\ providerPc = "none"
    /\ executePromise = Pending

\* {type: 'assistant_message', data: message}
AssistantMessage(message) == [type |-> "assistant_message", data |-> message]

\* execute is called: the options are computed and query() is called
Execute ==
    /\ providerPc = "none"
    /\ queryCall' = [called |-> TRUE, prompt |-> "userRequest",
                     options |-> createQueryOptions(modelArg, provOptions)]
    /\ providerPc' = "streaming"
    /\ UNCHANGED <<nonProviderVars, modelArg, provOptions, queryMessages,
                   queryEnding, queryPos, onEventCalls, executePromise>>

\* the stream yields its next message: onEvent is called with it, and returns
Yield ==
    /\ providerPc = "streaming"
    /\ queryPos < Len(queryMessages)
    /\ queryPos' = queryPos + 1
    /\ onEventCalls' = Append(onEventCalls, AssistantMessage(queryMessages[queryPos + 1]))
    /\ UNCHANGED <<nonProviderVars, modelArg, provOptions, queryMessages,
                   queryEnding, queryCall, providerPc, executePromise>>

\* the stream yields its next message and onEvent throws: the loop is left
\* and the catch block throws the error again
YieldOnEventThrows ==
    /\ providerPc = "streaming"
    /\ queryPos < Len(queryMessages)
    /\ queryPos' = queryPos + 1
    /\ onEventCalls' = Append(onEventCalls, AssistantMessage(queryMessages[queryPos + 1]))
    /\ executePromise' = [state |-> "rejected", value |-> JUndefined,
                          error |-> CallbackError]
    /\ providerPc' = "returned"
    /\ UNCHANGED <<nonProviderVars, modelArg, provOptions, queryMessages,
                   queryEnding, queryCall>>

\* the stream is exhausted: execute returns, nothing more is emitted
StreamEnds ==
    /\ providerPc = "streaming"
    /\ queryPos = Len(queryMessages)
    /\ queryEnding = "returns"
    /\ executePromise' = [state |-> "resolved", value |-> JUndefined, error |-> NoError]
    /\ providerPc' = "returned"
    /\ UNCHANGED <<nonProviderVars, modelArg, provOptions, queryMessages,
                   queryEnding, queryPos, queryCall, onEventCalls>>

\* the stream raises and the catch block reports a completion instead
StreamRaisesSwallowed ==
    /\ providerPc = "streaming"
    /\ queryPos = Len(queryMessages)
    /\ queryEnding = "throws"
    /\ onEventCalls' = Append(onEventCalls, [type |-> "completed", data |-> [type |-> "result", uuid |-> 0]])
    /\ executePromise' = [state |-> "resolved", value |-> JUndefined, error |-> NoError]
    /\ providerPc' = "returned"
    /\ UNCHANGED <<nonProviderVars, modelArg, provOptions, queryMessages,
                   queryEnding, queryPos, queryCall>>
\* the stream raises: the catch block throws the error again
StreamRaises ==
    /\ providerPc = "streaming"
    /\ queryPos = Len(queryMessages)
    /\ queryEnding = "throws"
    /\ executePromise' = [state |-> "rejected", value |-> JUndefined, error |-> QueryError]
    /\ providerPc' = "returned"
    /\ UNCHANGED <<nonProviderVars, modelArg, provOptions, queryMessages,
                   queryEnding, queryPos, queryCall, onEventCalls>>

NextProvider ==
    \/ Execute
    \/ Yield
    \/ YieldOnEventThrows
    \/ StreamEnds
    \/ StreamRaises

SpecProvider == InitProvider /\ [][NextProvider]_vars

(***************************************************************************)
(* Properties of the relay (specification SpecRelay).                      *)
(***************************************************************************)
\* The frames of a text, read off the text as a whole, one character at a
\* time: every run of characters closed by '\n\n', and the unterminated rest.
RECURSIVE Scan(_, _, _)
Scan(text, cur, frames) ==
    IF text = <<>> THEN [frames |-> frames, tail |-> cur]
    ELSE IF Len(text) >= 2 /\ text[1] = 10 /\ text[2] = 10
         THEN Scan(SubSeq(text, 3, Len(text)), <<>>, Append(frames, cur))
    ELSE Scan(Tail(text), Append(cur, text[1]), frames)

Frames(text) == Scan(text, <<>>, <<>>)

HasMarker(frame) == Len(frame) >= 6 /\ SubSeq(frame, 1, 6) = Marker
Payload(frame) == SubSeq(frame, 7, Len(frame))
WellFormed(frame) == HasMarker(frame) /\ JSONParse(Payload(frame)).ok
Malformed(frame) == HasMarker(frame) /\ ~JSONParse(Payload(frame)).ok

\* the payloads of the well-formed frames, in order
WellFormedPayloads(frames) ==
    LET sel == SelectSeq(frames, WellFormed)
    IN  [i \in 1..Len(sel) |-> Payload(sel[i])]

\* the record parsed from the last string handed to onData, null when none
LastRecord(calls) ==
    IF calls = <<>> THEN JNull ELSE JSONParse(calls[Len(calls)]).val

\* what streamSSE does with the whole input delivered as a single chunk
Unsplit == onChunk(<<>>, JNull, rInput)

\* C7: chunk-boundary independence: whatever the split into chunks, once the
\* stream has ended the callback has been given the same frames, and the
\* promise the same result, as for the unsplit stream.
C7_ChunkBoundaryIndependence ==
    rPromise.state = "resolved" =>
        /\ rCalls = Unsplit.calls
        /\ rPromise.value = Unsplit.lastEventData

\* C8: the strings handed to onData are exactly the payloads of the
\* delimiter-terminated well-formed frames of the text received, in arrival
\* order and once each; the unterminated rest stays in the buffer and is never
\* delivered, also not when the stream has ended; and their number is that of
\* the well-formed frames of the bytes delivered.
C8_NoReorderDropPartial ==
    /\ rCalls = WellFormedPayloads(Frames(rReceived).frames)
    /\ rBuffer = Frames(rReceived).tail
    /\ Len(rCalls) =
         Len(WellFormedPayloads(Frames(toString(SubSeq(rInput, 1, rPos))).frames))

C8_Witness ==
    /\ rPromise.state = "resolved"
    /\ Len(rCalls) >= 2
    /\ rCalls[1] # rCalls[2]
    /\ rBuffer # <<>>

\* C9: a malformed frame yields nothing and aborts nothing: onData is only
\* ever called with text that parses, the promise is rejected by a stream
\* error only, lastEventData is the record of the last well-formed frame, and
\* every well-formed frame is delivered whatever malformed frames precede it.
C9_MalformedFrameSkipped ==
    /\ \A i \in 1..Len(rCalls) : JSONParse(rCalls[i]).ok
    /\ rPromise.state = "rejected" => rPromise.error \in StreamErrors
    /\ rLast = LastRecord(WellFormedPayloads(Frames(rReceived).frames))
    /\ Len(rCalls) = Cardinality({i \in 1..Len(Frames(rReceived).frames) :
                                     WellFormed(Frames(rReceived).frames[i])})

C9_Witness ==
    LET fs == Frames(rReceived).frames
    IN  /\ rPromise.state = "resolved"
        /\ \E i \in 1..Len(fs) : \E j \in 1..Len(fs) :
              /\ i < j
              /\ Malformed(fs[i])
              /\ WellFormed(fs[j])
              /\ rCalls # <<>>
              /\ rCalls[Len(rCalls)] = Payload(fs[j])

\* C10: the promise is resolved only when the stream has ended, after every
\* byte was handled, with the record of the last string handed to onData, and
\* with null when onData was never called.
C10_ResolvesWithLastRecord ==
    rPromise.state = "resolved" =>
        /\ rPos = Len(rInput)
        /\ rPromise.value = LastRecord(rCalls)
        /\ rCalls = WellFormedPayloads(Frames(rReceived).frames)

C10_Witness ==
    /\ rPromise.state = "resolved"
    /\ Len(rCalls) >= 2
    /\ rPromise.value # JNull
    /\ rPromise.value # JSONParse(rCalls[1]).val

\* C29: an exception of onData is swallowed like a parse error: the
\* promise is rejected by a stream error only, the frames after the one at
\* which onData threw are still handed to onData, and the record of that
\* frame is lastEventData all the same, so that it is the value of the
\* promise when it was the last one.
C29_CallbackExceptionContained ==
    /\ rPromise.state = "rejected" => rPromise.error \in StreamErrors
    /\ rCalls = WellFormedPayloads(Frames(rReceived).frames)
    /\ rLast = LastRecord(rCalls)
    /\ rPromise.state = "resolved" =>
          rPos = Len(rInput) /\ rPromise.value = LastRecord(rCalls)

C29_Witness ==
    /\ rPromise.state = "resolved"
    /\ Len(rCalls) = 3
    /\ onDataThrows(rCalls[1])
    /\ ~onDataThrows(rCalls[2])
    /\ onDataThrows(rCalls[3])
    /\ rPromise.value = JSONParse(rCalls[3]).val

(***************************************************************************)
(* Properties of the server (specification Spec).                          *)
(***************************************************************************)
Accepted(j) == pc[j] \in {"pull", "execute", "done"}
InProgress(j) == pc[j] \in {"pull", "execute"}
Events(j) == res[j].events
Terminal(e) == e.type \in {"workflow_complete", "workflow_error"}
TerminalAt(j) == {i \in 1..Len(Events(j)) : Terminal(Events(j)[i])}
TypesOf(j) == {Events(j)[i].type : i \in 1..Len(Events(j))}

\* C1: at most one workflow is in progress (accepted and not yet at its
\* terminal event) at any time.
C1_AtMostOneInProgress ==
    Cardinality({j \in Requests : InProgress(j)}) <= 1

\* C2: a submission that passes validation and arrives while the worker is
\* busy is answered 429, writes no event and makes no downstream call.
C2_BusySubmissionRejected ==
    [][\A j \in Requests :
          (/\ serverStatus = "busy"
           /\ pc[j] = "none"
           /\ pc'[j] # "none"
           /\ res'[j].statusCode # 400)
          => /\ res'[j].statusCode = 429
             /\ res'[j].events = <<>>
             /\ sent'[j] = <<>>]_vars

\* C3: GET /status answers 200 when the worker is idle and 429 when it is
\* busy.
C3_StatusProbeCode ==
    /\ probe.status = "idle" => probe.statusCode = 200
    /\ probe.status = "busy" => probe.statusCode = 429

PullReportedFailure(j) ==
    \E i \in 1..Len(Events(j)) :
        /\ Events(j)[i].type = "pull_progress"
        /\ GetProp(Events(j)[i].data, KeyType) = JStr(TextError)

\* the pull call itself failed: the catch block was entered during step 1
PullCallFailed(j) ==
    /\ caught[j] # NoError
    /\ "workflow_step_complete" \notin TypesOf(j)

\* C5: when the pull fails (the call fails, or the pull service reports a
\* failure), no event of step 2 is written and no execution request is sent.
C5_NoExecutionAfterFailedPull ==
    \A j \in Requests :
        (PullCallFailed(j) \/ PullReportedFailure(j)) =>
            /\ Cardinality(TerminalAt(j)) <= 1
            /\ \A i \in 1..Len(Events(j)) :
                  Events(j)[i].step # 2 /\ Events(j)[i].type # "forwarded"
            /\ \A i \in 1..Len(sent[j]) : sent[j][i].to # "execute"

\* C6: once a step has raised a fatal error, the stream holds exactly one
\* terminal event, a workflow_error carrying the error's message ('Unknown
\* error' when the value raised is not an Error); it is the last event, no
\* workflow_complete is written, and the stream is ended.
C6_FatalErrorTerminal ==
    \A j \in Requests :
        caught[j] # NoError =>
            LET last == Events(j)[Len(Events(j))]
            IN  /\ last.type = "workflow_error"
                /\ last.error = IF caught[j].isError THEN caught[j].message
                                ELSE "Unknown error"
                /\ TerminalAt(j) = {Len(Events(j))}
                /\ "workflow_complete" \notin TypesOf(j)
                /\ res[j].ended

C6_Witness ==
    \E j \in Requests :
        /\ caught[j] # NoError
        /\ ~caught[j].isError
        /\ "forwarded" \in TypesOf(j)
        /\ Events(j)[Len(Events(j))].error = "Unknown error"

\* the record texts written to the caller during step 2, in order
ForwardedTexts(j) ==
    LET sel == SelectSeq(Events(j), LAMBDA e : e.type = "forwarded")
    IN  [i \in 1..Len(sel) |-> sel[i].raw]

\* C11: the records forwarded to the caller during step 2 are exactly the
\* record texts of the well-formed frames of the bytes the execution service
\* sent, one each, in the same order and character for character.
C11_ForwardedVerbatim ==
    \A j \in Requests :
        Accepted(j) =>
            ForwardedTexts(j) =
                WellFormedPayloads(Frames(toString(recv[j].execute)).frames)

\* C12: a request without a prompt or without a repoUrl is answered 400 and
\* nothing else happens: the flag keeps its value, no event is written, no
\* downstream request is sent and no exit is scheduled, neither when the
\* request is handled nor at any later time.
C12_InvalidRequestRejected ==
    [][\A j \in Requests :
          /\ (/\ pc[j] = "none"
              /\ pc'[j] # "none"
              /\ (body'[j].prompt = "" \/ body'[j].repoUrl = ""))
             => /\ res'[j] = [statusCode |-> 400, events |-> <<>>, ended |-> TRUE]
                /\ sent'[j] = <<>>
                /\ serverStatus' = serverStatus
                /\ timers' = timers
          /\ (res[j].statusCode = 400)
             => /\ res'[j] = res[j]
                /\ sent'[j] = <<>>
                /\ \A i \in 1..Len(timers') : timers'[i].request # j]_vars

C12_Witness ==
    \E j \in Requests : \E k \in Requests :
        /\ res[j].statusCode = 400
        /\ body[j].prompt # ""
        /\ body[j].repoUrl = ""
        /\ serverStatus = "idle"
        /\ res[k].statusCode = 400
        /\ body[k].prompt = ""
        /\ body[k].repoUrl # ""

\* the canonical order as an automaton over the events of a stream: the
\* position reached after each event, 7 when the event is out of order
CanonicalStep(at, e) ==
    CASE e.type = "workflow_error" /\ at < 6 -> 6
      [] at = 0 /\ e.type = "workflow_started" /\ e.step = 1 -> 1
      [] at = 1 /\ e.type = "message" -> 2
      [] at = 2 /\ e.type = "pull_progress" -> 2
      [] at = 2 /\ e.type = "workflow_step_complete" /\ e.step = 1 -> 3
      [] at = 3 /\ e.type = "workflow_started" /\ e.step = 2 -> 4
      [] at = 4 /\ e.type = "message" -> 5
      [] at = 5 /\ e.type = "forwarded" -> 5
      [] at = 5 /\ e.type = "workflow_complete" -> 6
      [] OTHER -> 7

RECURSIVE Canonical(_, _)
Canonical(events, at) ==
    IF events = <<>> THEN at
    ELSE Canonical(Tail(events), CanonicalStep(at, Head(events)))

\* the step numbers carried by the step markers of a stream, in order
StepNumbers(j) ==
    LET sel == SelectSeq(Events(j), LAMBDA e :
                   e.type \in {"workflow_started", "workflow_step_complete"})
    IN  [i \in 1..Len(sel) |-> sel[i].step]

\* C13: the events of every stream follow the canonical order:
\* workflow_started(1), message, pull_progress*, workflow_step_complete(1),
\* workflow_started(2), message, forwarded records*, workflow_complete, or a
\* prefix of it closed by workflow_error; no marker repeats and the step
\* numbers never decrease.
C13_CanonicalOrder ==
    \A j \in Requests :
        /\ LET at == Canonical(Events(j), 0)
           IN  /\ at # 7
               /\ res[j].ended /\ Accepted(j) => at = 6
        /\ LET steps == StepNumbers(j)
           IN  \A i \in 1..Len(steps) : \A k \in 1..Len(steps) :
                  i < k => steps[i] <= steps[k]
        /\ \A t \in {"workflow_step_complete", "workflow_complete", "workflow_error"} :
              Cardinality({i \in 1..Len(Events(j)) : Events(j)[i].type = t}) <= 1
        /\ \A n \in {1, 2} :
              Cardinality({i \in 1..Len(Events(j)) :
                              /\ Events(j)[i].type = "workflow_started"
                              /\ Events(j)[i].step = n}) <= 1

C13_Witness ==
    \E j \in Requests :
        /\ pc[j] = "done"
        /\ "pull_progress" \in TypesOf(j)
        /\ "forwarded" \in TypesOf(j)
        /\ Events(j)[Len(Events(j))].type = "workflow_error"
        /\ Canonical(Events(j), 0) = 6

\* a workspace path the pull step of request j produced: a non-empty
\* targetPath carried by one of its pull frames
Produced(j, path) ==
    /\ Truthy(path)
    /\ \E i \in 1..Len(Events(j)) :
          /\ Events(j)[i].type = "pull_progress"
          /\ GetProp(Events(j)[i].data, KeyTargetPath) = path

\* C14: the execution request is sent, and the events of step 2 are
\* written, only with a workspace that the pull step of the same request
\* produced, never with the initial value of targetPath.
C14_WorkspaceProducedBeforeUse ==
    \A j \in Requests :
        /\ \A i \in 1..Len(sent[j]) :
              sent[j][i].to = "execute" => Produced(j, sent[j][i].workspace)
        /\ \A i \in 1..Len(Events(j)) :
              Events(j)[i].step = 2 => Produced(j, Events(j)[i].targetPath)

\* C15: every accepted request reaches its terminal event, so the process
\* never exits through the timer of one request while another accepted
\* request is still without its terminal event (after process.exit nothing
\* more is written).
C15_NoJobCutShortByExit ==
    proc.by = "timer" =>
        \A j \in Requests : Accepted(j) => TerminalAt(j) # {}

(***************************************************************************)
(* Properties of generateCommitMessage (specification SpecCommit).         *)
(***************************************************************************)
\* the text-generation capability failed: the call threw or was rejected
\* (an API error, a timeout), or the response has no content block, or its
\* first content block is not text
CapabilityFailed ==
    \/ llmOutcome.kind \in {"throws", "rejects"}
    \/ /\ llmOutcome.kind = "resolves"
       /\ \/ llmOutcome.content = <<>>
          \/ llmOutcome.content[1].type # "text"

\* C16: the promise of generateCommitMessage is never rejected; it is
\* settled as soon as the capability has answered or failed; and on every
\* failure of the capability it is resolved with exactly
\* 'chore: auto-commit changes'.
C16_FallbackOnFailure ==
    /\ commitMessage.state # "rejected"
    /\ commitPc = "returned" <=> commitMessage.state = "resolved"
    /\ llmOutcome.kind # "none" => commitPc = "returned"
    /\ commitPc = "returned" /\ CapabilityFailed =>
          commitMessage = [state |-> "resolved", value |-> JStr(Fallback),
                           error |-> NoError]

C16_Witness ==
    /\ commitPc = "returned"
    /\ llmOutcome.kind = "rejects"
    /\ llmOutcome.error.message = "Request timed out."
    /\ gitDiff # <<>>
    /\ commitMessage.value = JStr(Fallback)

\* C17: once the caller of a running request has disconnected, the request
\* is aborted: nothing more is taken from its downstream stream, no further
\* downstream request is sent for it, and the only event still written is
\* the terminal one.
C17_DisconnectAborts ==
    [][\A j \in Requests :
          client[j] = "gone" =>
              /\ recv'[j] = recv[j]
              /\ sent'[j] = sent[j]
              /\ \/ res'[j].events = res[j].events
                 \/ /\ Len(res'[j].events) = Len(res[j].events) + 1
                    /\ Terminal(res'[j].events[Len(res'[j].events)])]_vars

\* C26: the request handed to the capability holds exactly the first
\* min(length, DiffLimit) characters of the diff, whatever its length, and
\* the status whole.
C26_DiffTruncated ==
    commitPc # "none" =>
        LET n == IF Len(gitDiff) < DiffLimit THEN Len(gitDiff) ELSE DiffLimit
        IN  /\ Len(llmRequest.diff) = n
            /\ \A i \in 1..n : llmRequest.diff[i] = gitDiff[i]
            /\ llmRequest.status = gitStatus

C26_Witness ==
    /\ commitPc = "awaiting"
    /\ Len(gitDiff) = DiffLimit + 1
    /\ gitDiff[1] # gitDiff[2]
    /\ Len(llmRequest.diff) = DiffLimit
    /\ llmRequest.diff[1] = 97
    /\ gitStatus # <<>>

\* C28: the message generateCommitMessage returns is a non-empty string:
\* the fallback, or the trimmed text of the first content block.
C28_MessageNeverEmpty ==
    commitPc = "returned" =>
        /\ commitMessage.state = "resolved"
        /\ commitMessage.value.t = "str"
        /\ commitMessage.value.s # <<>>
        /\ \/ commitMessage.value.s = Fallback
           \/ /\ ~CapabilityFailed
              /\ commitMessage.value.s = trim(llmOutcome.content[1].text)

(***************************************************************************)
(* Properties of the auto-commit sub-pipeline (specification               *)
(* SpecAutoCommit).                                                        *)
(***************************************************************************)
\* the place of a stage in analyzing, generating_message, committing,
\* committed, pushing, (pushed | push_failed), completed
StageRank(stage) ==
    CASE stage = "analyzing" -> 1
      [] stage = "generating_message" -> 2
      [] stage = "committing" -> 3
      [] stage = "committed" -> 4
      [] stage = "pushing" -> 5
      [] stage \in {"pushed", "push_failed"} -> 6
      [] stage = "completed" -> 7
      [] OTHER -> 0

ProgressAt == {i \in 1..Len(acEvents) : acEvents[i].type = "commit_progress"}
StagesEmitted == {acEvents[i].stage : i \in ProgressAt}
RunCompletedAt == {i \in ProgressAt : acEvents[i].stage = "completed"}
JobCompletedAt == {i \in 1..Len(acEvents) : acEvents[i].type = "completed"}
JobFailed == \E i \in 1..Len(acEvents) : acEvents[i].type = "error"
GitFailed(op) == {i \in 1..Len(acGit) : acGit[i].op = op /\ ~acGit[i].ok}

\* the stages emitted so far are in the canonical order, each at most once,
\* pushed and push_failed never both, and nothing of the run follows its
\* completed event but the outer completed event
StagesInOrder ==
    /\ \A i \in ProgressAt : StageRank(acEvents[i].stage) # 0
    /\ \A i \in ProgressAt : \A k \in ProgressAt :
          i < k => StageRank(acEvents[i].stage) < StageRank(acEvents[k].stage)
    /\ \A i \in JobCompletedAt : \A k \in ProgressAt : k < i
    /\ acPc \in {"completed", "done"} <=> RunCompletedAt # {}
    /\ acPc = "done" =>
          /\ JobCompletedAt = {Len(acEvents)}
          /\ RunCompletedAt = {Len(acEvents) - 1}

C22_ExitNeverCutsAnotherStream ==
    [][(proc.running /\ ~proc'.running /\ proc'.by = "timer") =>
          \A j \in Requests : ~InProgress(j)]_vars

\* the positions of the events of a type in the stream of request j
At(j, type) == {i \in 1..Len(Events(j)) : Events(j)[i].type = type}
ExecuteSent(j) == \E i \in 1..Len(sent[j]) : sent[j][i].to = "execute"

\* C23: the stages of a request run one after the other: the execution
\* request is sent only when the pull stream has ended and
\* workflow_step_complete has been written; every pull_progress event
\* precedes the start of step 2 and every forwarded execution record, and
\* every forwarded record follows the start of step 2.
C23_StagesSequential ==
    \A j \in Requests :
        /\ ExecuteSent(j) <=>
              \/ pc[j] = "execute"
              \/ pc[j] = "done" /\ At(j, "workflow_step_complete") # {}
        /\ ExecuteSent(j) => At(j, "workflow_step_complete") # {}
        /\ pc[j] = "pull" => At(j, "forwarded") = {}
        /\ \A i \in At(j, "pull_progress") :
              /\ \A k \in At(j, "workflow_step_complete") : i < k
              /\ \A k \in At(j, "forwarded") : i < k
        /\ \A i \in At(j, "forwarded") :
              \E k \in At(j, "workflow_started") : Events(j)[k].step = 2 /\ k < i

C23_Witness ==
    \E j \in Requests :
        /\ pc[j] = "execute"
        /\ At(j, "pull_progress") # {}
        /\ At(j, "forwarded") # {}
        /\ Len(sent[j]) = 2
        /\ recv[j].pull # <<>>
        /\ recv[j].execute # <<>>

\* the exits request j has scheduled
TimersOf(j) == {i \in 1..Len(timers) : timers[i].request = j}

\* C24: a request schedules the exit of the process only once its terminal
\* event is written and its stream ended, exactly one exit per finished
\* request, with code 0 exactly when the terminal event is
\* workflow_complete and code 1 exactly when it is workflow_error; a request
\* rejected by the validation schedules none; and an exit through a timer
\* carries the code of the exit scheduled first.
C24_ExitAfterStreamEnded ==
    /\ \A j \in Requests :
          /\ Cardinality(TimersOf(j)) = IF pc[j] = "done" THEN 1 ELSE 0
          /\ \A i \in TimersOf(j) :
                /\ res[j].ended
                /\ TerminalAt(j) = {Len(Events(j))}
                /\ timers[i].code = 0 <=>
                      Events(j)[Len(Events(j))].type = "workflow_complete"
                /\ timers[i].code = 1 <=>
                      Events(j)[Len(Events(j))].type = "workflow_error"
    /\ proc.by = "timer" =>
          /\ timers # <<>>
          /\ proc.code = timers[1].code
          /\ res[timers[1].request].ended

C24_Witness ==
    /\ proc.by = "timer"
    /\ proc.code = 1
    /\ \E j \in Requests : \E k \in Requests :
          /\ pc[j] = "rejected"
          /\ pc[k] = "done"
          /\ Events(k)[Len(Events(k))].type = "workflow_error"

(***************************************************************************)
(* Properties of ClaudeCodeProvider (specification SpecProvider).          *)
(***************************************************************************)
StreamRaised == providerPc = "returned" /\ executePromise.error = QueryError

\* C25: onEvent has been called once for each message the stream has
\* yielded, in the order of the stream, with type 'assistant_message' and the
\* message itself as data; when the stream raises, execute is rejected with
\* the stream's error and no other event is made up; execute is resolved
\* only when the stream has ended after its last message; and once execute
\* has returned, onEvent is not called again.
C25_OneEventPerMessage ==
    /\ [](/\ onEventCalls =
               [i \in 1..queryPos |->
                   [type |-> "assistant_message", data |-> queryMessages[i]]]
          /\ (providerPc = "returned" /\ queryPos = Len(queryMessages)
                 /\ queryEnding = "throws" /\ executePromise.error # CallbackError)
                => executePromise =
                      [state |-> "rejected", value |-> JUndefined, error |-> QueryError]
          /\ executePromise.state = "resolved" =>
                queryEnding = "returns" /\ queryPos = Len(queryMessages)
          /\ providerPc = "returned" <=> executePromise.state # "pending")
    /\ [][executePromise.state # "pending" => onEventCalls' = onEventCalls]_vars

C25_Witness ==
    /\ StreamRaised
    /\ executePromise.state = "rejected"
    /\ Len(onEventCalls) = 3
    /\ onEventCalls[1].data # onEventCalls[2].data
    /\ onEventCalls[3].data.type = "result"

\* C27: the flag is idle exactly as long as no request has been accepted
\* (whatever the number of requests rejected by the validation), it is busy
\* from the acceptance of the first valid request on, before any event of
\* that request is in its stream, and once busy it is never idle again.
C27_BusyFlagMonotone ==
    /\ [](serverStatus = "idle" <=> \A j \in Requests : ~Accepted(j))
    /\ [](\A j \in Requests : Events(j) # <<>> => serverStatus = "busy")
    /\ [][serverStatus = "busy" => serverStatus' = "busy"]_vars

C27_Witness ==
    /\ serverStatus = "busy"
    /\ pc[1] = "rejected"
    /\ pc[2] = "done"
    /\ proc.by = "timer"
    /\ probe.status = "idle"

\* parsed.targetPath of a record, undefined when it has none
PathOf(record) ==
    IF record.t = "null" THEN JUndefined ELSE GetProp(record, KeyTargetPath)

\* the targetPath of the last of the records that has a non-empty one, and
\* the initial '' when none has
RECURSIVE LastPath(_)
LastPath(records) ==
    IF records = <<>> THEN JStr(<<>>)
    ELSE LET last == PathOf(JSONParse(records[Len(records)]).val)
         IN  IF Truthy(last) THEN last
             ELSE LastPath(SubSeq(records, 1, Len(records) - 1))

\* the records of the well-formed frames the pull service has sent request j
PullRecords(j) == WellFormedPayloads(Frames(toString(recv[j].pull)).frames)

\* C30: each well-formed pull frame gives one pull_progress event with its
\* record, in order; the carried targetPath is that of the last pull frame
\* with a non-empty targetPath; and workflow_step_complete announces the
\* carried value, which is also the workspace sent to the execution step.
C30_CarriedPathIsLastProduced ==
    \A j \in Requests :
        Accepted(j) =>
            LET recs == PullRecords(j)
                at   == {i \in 1..Len(Events(j)) : Events(j)[i].type = "pull_progress"}
            IN  /\ Cardinality(at) = Len(recs)
                /\ \A i \in at :
                      Events(j)[i].data =
                          JSONParse(recs[Cardinality({k \in at : k <= i})]).val
                /\ targetPath[j] = LastPath(recs)
                /\ \A i \in 1..Len(Events(j)) :
                      Events(j)[i].type = "workflow_step_complete" =>
                          Events(j)[i].targetPath = targetPath[j]
                /\ \A i \in 1..Len(sent[j]) :
                      sent[j][i].to = "execute" =>
                          sent[j][i].workspace = targetPath[j]

\* a string with at least one character
NonEmpty(v) == v.t = "str" /\ v.s # <<>>

\* the providerOptions field of the options of execute, undefined when the
\* options have no providerOptions
Given(field) ==
    IF provOptions.hasProviderOptions THEN provOptions[field] ELSE JUndefined

\* the skipPermissions createQueryOptions is to work with
ExpectedSkip ==
    IF Given("skipPermissions") \in {JTrue, JFalse}
    THEN Given("skipPermissions") ELSE JTrue

====
